---------------------------- MODULE Spec2Model ----------------------------
(***************************************************************************)
(* Order lifecycle of the e-commerce microservices: the Stock Ledger       *)
(* (product-service ProductRepository.UpdateStock), the Order Store        *)
(* (order-service OrderRepository with its Redis cache) and the Order      *)
(* Orchestrator (order-service OrderService.CreateOrder / CancelOrder).    *)
(*                                                                         *)
(* Three specifications share the variables:                               *)
(*   SpecLedger    concurrent UpdateStock transactions on products.stock   *)
(*   SpecCheckout  concurrent CreateOrder requests                         *)
(*   Spec          CreateOrder and CancelOrder requests running together   *)
(* Database and broker outages are not modelled; a Redis entry lives for   *)
(* the whole run (its ten minute expiry is not modelled).                  *)
(***************************************************************************)
EXTENDS Integers, Sequences, FiniteSets, TLC

(***************************************************************************)
(* Bounds of the model.                                                    *)
(***************************************************************************)
NumAdjusters == 2      \* concurrent UpdateStock requests
MaxStock == 2          \* largest initial products.stock
MaxDelta == 2          \* largest |quantity| of one UpdateStock request
NumCreators == 2       \* concurrent CreateOrder requests
NumCancellers == 2     \* concurrent CancelOrder requests
MaxQuantity == 2       \* largest in-range quantity of one order item
MaxItems == 2          \* most items of one order
NumOrders == 1         \* orders created while CancelOrder requests run
MaxRequests == 2       \* HTTP requests to POST /api/v1/orders in one run
NumInstances == 1      \* notification-service instances consuming the queue
MaxShutdowns == 1      \* shutdowns (SIGTERM) of one instance in one run
NumCancelCalls == 3    \* CancelOrder calls on one order, one after another or at once
NumReadCalls == 3      \* CancelOrder / GetOrderByID / GetOrderStatus calls in one run
IntBits == 8           \* bits of an int in the model (Go: 64)

(***************************************************************************)
(* Program constants.                                                      *)
(***************************************************************************)
MockStock == 100       \* getProductDetails: Stock: 100
MockPriceCents == 9999 \* getProductDetails: Price: 99.99

None == "none"

\* rows of the products table; MissingProduct has no row
ProductRows == {"p1", "p2"}
MissingProduct == "p0"
ProductIds == ProductRows \cup {MissingProduct}

Adjusters == 1..NumAdjusters
\* the HTTP handler binds quantity with `required`, which rejects 0
Deltas == ((0 - MaxDelta)..MaxDelta) \ {0}

VARIABLES
    stock,          \* products.stock of every row (committed value)
    initialStock,   \* products.stock at the start (never changes)
    rowLock,        \* transactions holding the FOR UPDATE lock of every row
    adj,            \* per UpdateStock request: pc, productID, quantity,
                    \*   currentStock (as read) and result
    orders,         \* orders table joined with order_items, by order id
    orderCache,     \* Redis key order:<id>: the cached copy's status
    cre,            \* per CreateOrder request
    can,            \* per CancelOrder request
    goroutines,     \* publish goroutines started (the event, the outcome)
    bindings,       \* queues bound to the exchange "orders", with their key
    queues,         \* the ready messages of every queue, oldest first
    consumers,      \* per notification-service instance: its channel, the
                    \*   delivery it has not settled, its place in the loop
    notifications,  \* notifications table, in insertion order
    history         \* ids of the messages acked / rejected for good

vars == <<stock, initialStock, rowLock, adj, orders, orderCache, cre, can,
          goroutines, bindings, queues, consumers, notifications, history>>

ledgerVars == <<stock, initialStock, rowLock, adj>>
orderVars == <<orders, orderCache, cre, can, goroutines>>
brokerVars == <<bindings, queues, consumers, notifications, history>>

(***************************************************************************)
(* Stock Ledger: ProductRepository.UpdateStock                             *)
(***************************************************************************)
IdleAdj == [pc |-> "idle", productID |-> None, quantity |-> 0,
            currentStock |-> 0, result |-> None]

\* SELECT stock ... FOR UPDATE blocks while another transaction holds the row
RowAvailableNoLock(lock, p) == TRUE
RowAvailable(lock, p) == lock[p] = {}

\* if newStock < 0 { return insufficient stock }
InsufficientNoCheck(currentStock, quantity) == FALSE
InsufficientOffByOne(currentStock, quantity) == currentStock + quantity <= 0
Insufficient(currentStock, quantity) == currentStock + quantity < 0

\* newStock := currentStock + quantity
NewStock(currentStock, quantity) == currentStock + quantity

\* a request arrives: PUT /products/:id/stock {quantity}
UpdateStockCall(a, p, d) ==
    /\ adj[a].pc = "idle"
    /\ adj' = [adj EXCEPT ![a] = [IdleAdj EXCEPT !.pc = "select",
                                                !.productID = p,
                                                !.quantity = d]]
    /\ UNCHANGED <<stock, initialStock, rowLock>>
    /\ UNCHANGED <<orderVars, brokerVars>>

\* BeginTx; SELECT stock FROM products WHERE id = $1 FOR UPDATE
\* no row: "product not found" and the deferred Rollback
UpdateStockSelect(a) ==
    /\ adj[a].pc = "select"
    /\ LET p == adj[a].productID IN
       IF p \notin DOMAIN stock
       THEN /\ adj' = [adj EXCEPT ![a].pc = "done",
                                  ![a].result = "ProductNotFound"]
            /\ UNCHANGED rowLock
       ELSE /\ RowAvailable(rowLock, p)
            /\ rowLock' = [rowLock EXCEPT ![p] = @ \cup {a}]
            /\ adj' = [adj EXCEPT ![a].pc = "locked",
                                  ![a].currentStock = stock[p]]
    /\ UNCHANGED <<stock, initialStock>>
    /\ UNCHANGED <<orderVars, brokerVars>>

\* the check, then UPDATE products SET stock = newStock; Commit; redis Del
\* (the product cache is not part of the products table).  A failed check
\* returns through the deferred Rollback, which releases the row lock.
UpdateStockFinish(a) ==
    /\ adj[a].pc = "locked"
    /\ LET p == adj[a].productID
           d == adj[a].quantity
           c == adj[a].currentStock IN
       /\ rowLock' = [rowLock EXCEPT ![p] = @ \ {a}]
       /\ IF Insufficient(c, d)
          THEN /\ adj' = [adj EXCEPT ![a].pc = "done",
                                     ![a].result = "InsufficientStock"]
               /\ UNCHANGED stock
          ELSE /\ stock' = [stock EXCEPT ![p] = NewStock(c, d)]
               /\ adj' = [adj EXCEPT ![a].pc = "done", ![a].result = "ok"]
    /\ UNCHANGED initialStock
    /\ UNCHANGED <<orderVars, brokerVars>>

(***************************************************************************)
(* Order Store and Order Orchestrator                                      *)
(***************************************************************************)
Creators == 1..NumCreators
Cancellers == 1..NumCancellers
LifecycleOrders == 1..NumOrders
OrderUsers == {"u1"}
CancelUsers == {"u1", "u2"}

\* sequences of 1..n elements of S
SeqsUpTo(S, n) == UNION {[1..k -> S] : k \in 1..n}

\* CreateOrderRequest.Items: product_id, quantity (binding: min=1)
Quantities == (1..MaxQuantity) \cup {MockStock + 1}
RequestItems == [productID : ProductIds, quantity : Quantities]
Requests == SeqsUpTo(RequestItems, MaxItems)

NoOrder == [status |-> None, userID |-> None, items |-> <<>>, totalPrice |-> 0]
\* order: the models.Order the service holds in memory and returns
IdleCre == [pc |-> "idle", userID |-> None, items |-> <<>>, err |-> None,
            result |-> None, tx |-> NoOrder, order |-> NoOrder]
IdleCan == [pc |-> "idle", orderID |-> 0, userID |-> None, seen |-> None,
            err |-> None, result |-> None]

\* validateUser: only an empty user id is refused
validateUser(u) == IF u = "" THEN "user ID is required" ELSE "nil"

\* getProductDetails: mock data, every requested id is a product
getProductDetails(ids) ==
    [id \in ids |-> [price |-> MockPriceCents, stock |-> MockStock]]

\* the loop of step 3: the error of the first item that fails, else "nil"
RECURSIVE PreCheckNoStock(_, _, _)
PreCheckNoStock(products, items, i) ==
    IF i > Len(items) THEN "nil"
    ELSE IF items[i].productID \notin DOMAIN products THEN "ProductNotFound"
    ELSE PreCheckNoStock(products, items, i + 1)

RECURSIVE PreCheck(_, _, _)
PreCheck(products, items, i) ==
    IF i > Len(items) THEN "nil"
    ELSE IF items[i].productID \notin DOMAIN products THEN "ProductNotFound"
    ELSE IF products[items[i].productID].stock < items[i].quantity
         THEN "InsufficientStock"
    ELSE PreCheck(products, items, i + 1)

\* orderItems: the request's items with the catalog price
OrderItemsOf(products, items) ==
    [i \in 1..Len(items) |->
        [productID |-> items[i].productID, quantity |-> items[i].quantity,
         price |-> products[items[i].productID].price]]

\* totalPrice += product.Price * float64(item.Quantity)
RECURSIVE TotalPriceIgnoringQuantity(_, _)
TotalPriceIgnoringQuantity(orderItems, i) ==
    IF i > Len(orderItems) THEN 0
    ELSE orderItems[i].price + TotalPriceIgnoringQuantity(orderItems, i + 1)
RECURSIVE TotalPrice(_, _)
TotalPrice(orderItems, i) ==
    IF i > Len(orderItems) THEN 0
    ELSE orderItems[i].price * orderItems[i].quantity + TotalPrice(orderItems, i + 1)

\* the quantity of product p in the items of one order
RECURSIVE QuantityOf(_, _, _)
QuantityOf(items, p, i) ==
    IF i > Len(items) THEN 0
    ELSE (IF items[i].productID = p THEN items[i].quantity ELSE 0)
         + QuantityOf(items, p, i + 1)

\* reserveStock: logs every item, calls nothing, returns nil
reserveStockAdjusting(ledger, items) ==
    [err |-> "nil",
     ledger |-> [p \in DOMAIN ledger |-> ledger[p] - QuantityOf(items, p, 1)]]
reserveStock(ledger, items) == [err |-> "nil", ledger |-> ledger]

\* releaseStock: logs every item, calls nothing, returns nil
releaseStockAdjusting(ledger, items) ==
    [err |-> "nil",
     ledger |-> [p \in DOMAIN ledger |-> ledger[p] + QuantityOf(items, p, 1)]]
releaseStock(ledger, items) == [err |-> "nil", ledger |-> ledger]

\* OrderRepository.UpdateStatus, the UPDATE: no guard on the current status;
\* zero rows affected is "order not found"
UpdateStatusErr(table, o, status) ==
    IF o \notin DOMAIN table \/ table[o].status = None
    THEN "order not found" ELSE "nil"
UpdateStatusRowRepricing(table, o, status) ==
    IF o \notin DOMAIN table \/ table[o].status = None
    THEN table ELSE [table EXCEPT ![o].status = status, ![o].totalPrice = 0]
UpdateStatusRow(table, o, status) ==
    IF o \notin DOMAIN table \/ table[o].status = None
    THEN table ELSE [table EXCEPT ![o].status = status]

\* CancelOrder, the checks on the order GetByID returned
CancelCheckAnyUser(order, status, u) ==
    IF status = "cancelled" THEN "AlreadyCancelled"
    ELSE IF status = "completed" THEN "CannotCancelCompleted"
    ELSE "nil"
CancelCheckAnyStatus(order, status, u) ==
    IF order.userID # u THEN "Unauthorized" ELSE "nil"
CancelCheck(order, status, u) ==
    IF order.userID # u THEN "Unauthorized"
    ELSE IF status = "cancelled" THEN "AlreadyCancelled"
    ELSE IF status = "completed" THEN "CannotCancelCompleted"
    ELSE "nil"

VarcharLen == 36  \* order_items.product_id VARCHAR(36)
LongProductID == "product-0000000000000000000000000000x"

\* INSERT INTO order_items: a product_id longer than the column is an error
InsertItemErr(item) ==
    IF Len(item.productID) > VarcharLen THEN "failed to insert order item" ELSE "nil"

\* repo.Create as the service sees it: the error of the first INSERT that
\* fails (the transaction is rolled back), else "nil"
RECURSIVE CreateErr(_, _)
CreateErr(orderItems, i) ==
    IF i > Len(orderItems) THEN "nil"
    ELSE IF InsertItemErr(orderItems[i]) # "nil" THEN "failed to create order"
    ELSE CreateErr(orderItems, i + 1)

\* the order object of step 4 after repo.Create filled in its id and set
\* Status = "pending"; nothing assigns to it afterwards
OrderInMemory(u, orderItems) ==
    [status |-> "pending", userID |-> u, items |-> orderItems,
     totalPrice |-> TotalPrice(orderItems, 1)]

\* CreateOrder steps 1-4: validateUser, getProductDetails, the item loop,
\* repo.Create (one transaction: the order row and its items, status pending)
CreateOrderPersist(w, u, items) ==
    /\ cre[w].pc = "idle"
    /\ LET products == getProductDetails({items[i].productID : i \in 1..Len(items)})
           failure == IF validateUser(u) # "nil" THEN "UserInvalid"
                      ELSE IF PreCheck(products, items, 1) # "nil"
                           THEN PreCheck(products, items, 1)
                      ELSE CreateErr(OrderItemsOf(products, items), 1) IN
       IF failure # "nil"
       THEN /\ cre' = [cre EXCEPT ![w].pc = "done", ![w].result = failure]
            /\ UNCHANGED orders
       ELSE LET orderItems == OrderItemsOf(products, items) IN
            /\ orders' = [orders EXCEPT ![w] =
                  [status |-> "pending", userID |-> u, items |-> orderItems,
                   totalPrice |-> TotalPrice(orderItems, 1)]]
            /\ cre' = [cre EXCEPT ![w].pc = "created", ![w].userID = u,
                                  ![w].items = orderItems,
                                  ![w].order = OrderInMemory(u, orderItems)]
    /\ UNCHANGED <<orderCache, can, goroutines>>
    /\ UNCHANGED <<ledgerVars, brokerVars>>

\* CreateOrder steps 5-6: reserveStock, then the UPDATE of UpdateStatus:
\* cancelled when reserveStock failed, confirmed otherwise
CreateOrderReserve(w) ==
    /\ cre[w].pc = "created"
    /\ LET r == reserveStock(stock, cre[w].items)
           status == IF r.err # "nil" THEN "cancelled" ELSE "confirmed" IN
       /\ stock' = r.ledger
       /\ orders' = UpdateStatusRow(orders, w, status)
       /\ cre' = [cre EXCEPT ![w].pc = "invalidate", ![w].err = r.err]
    /\ UNCHANGED <<orderCache, can, goroutines>>
    /\ UNCHANGED <<initialStock, rowLock, adj, brokerVars>>

\* CreateOrder returning without starting the publish goroutine
CreateOrderReturnSilent(w) ==
    /\ cre[w].pc = "invalidate"
    /\ orderCache' = [orderCache EXCEPT ![w] = None]
    /\ cre' = [cre EXCEPT ![w].pc = "done",
                          ![w].result = IF cre[w].err # "nil" THEN cre[w].err ELSE "ok"]
    /\ UNCHANGED <<orders, can, goroutines>>
    /\ UNCHANGED <<ledgerVars, brokerVars>>

\* the end of UpdateStatus (redis Del), then step 7 and the return: the
\* publish goroutine is started and the order returned, or the reservation
\* error is returned
CreateOrderReturn(w) ==
    /\ cre[w].pc = "invalidate"
    /\ orderCache' = [orderCache EXCEPT ![w] = None]
    /\ IF cre[w].err # "nil"
       THEN /\ cre' = [cre EXCEPT ![w].pc = "done", ![w].result = cre[w].err]
            /\ UNCHANGED goroutines
       ELSE /\ cre' = [cre EXCEPT ![w].pc = "done", ![w].result = "ok"]
            /\ goroutines' = goroutines \cup
                  {[by |-> "CreateOrder", worker |-> w, orderID |-> w,
                    userID |-> cre[w].userID,
                    totalPrice |-> TotalPrice(cre[w].items, 1),
                    status |-> "confirmed", outcome |-> "running", attempts |-> 0]}
    /\ UNCHANGED <<orders, can>>
    /\ UNCHANGED <<ledgerVars, brokerVars>>

\* CancelOrder: GetByID, the cache lookup.  A hit returns the cached copy and
\* the checks follow; a miss goes on to the database.
CancelOrderGet(c, o, u) ==
    /\ can[c].pc = "idle"
    /\ IF orderCache[o] # None
       THEN LET failure == CancelCheck(orders[o], orderCache[o], u) IN
            can' = [can EXCEPT ![c] =
                      [IdleCan EXCEPT !.orderID = o, !.userID = u,
                                      !.seen = orderCache[o],
                                      !.pc = IF failure = "nil" THEN "update" ELSE "done",
                                      !.result = IF failure = "nil" THEN None ELSE failure]]
       ELSE can' = [can EXCEPT ![c] =
                      [IdleCan EXCEPT !.orderID = o, !.userID = u, !.pc = "query"]]
    /\ UNCHANGED <<orders, orderCache, cre, goroutines>>
    /\ UNCHANGED <<ledgerVars, brokerVars>>

\* GetByID, the SELECT of the order and of its items
CancelOrderQuery(c) ==
    /\ can[c].pc = "query"
    /\ IF orders[can[c].orderID].status = None
       THEN can' = [can EXCEPT ![c].pc = "done", ![c].result = "NotFound"]
       ELSE can' = [can EXCEPT ![c].pc = "fill",
                               ![c].seen = orders[can[c].orderID].status]
    /\ UNCHANGED <<orders, orderCache, cre, goroutines>>
    /\ UNCHANGED <<ledgerVars, brokerVars>>

\* GetByID, the redis Set of what was read; then the checks of CancelOrder
CancelOrderFill(c) ==
    /\ can[c].pc = "fill"
    /\ LET o == can[c].orderID
           failure == CancelCheck(orders[o], can[c].seen, can[c].userID) IN
       /\ orderCache' = [orderCache EXCEPT ![o] = can[c].seen]
       /\ IF failure = "nil"
          THEN can' = [can EXCEPT ![c].pc = "update"]
          ELSE can' = [can EXCEPT ![c].pc = "done", ![c].result = failure]
    /\ UNCHANGED <<orders, cre, goroutines>>
    /\ UNCHANGED <<ledgerVars, brokerVars>>

\* releaseStock (its error is only logged), then the UPDATE of UpdateStatus
CancelOrderUpdate(c) ==
    /\ can[c].pc = "update"
    /\ LET o == can[c].orderID
           r == releaseStock(stock, orders[o].items) IN
       /\ stock' = r.ledger
       /\ orders' = UpdateStatusRow(orders, o, "cancelled")
       /\ can' = [can EXCEPT ![c].pc = "invalidate",
                             ![c].err = UpdateStatusErr(orders, o, "cancelled")]
    /\ UNCHANGED <<orderCache, cre, goroutines>>
    /\ UNCHANGED <<initialStock, rowLock, adj, brokerVars>>

\* the end of UpdateStatus (redis Del), the publish goroutine, return nil;
\* a failed UPDATE returned before the Del
CancelOrderReturn(c) ==
    /\ can[c].pc = "invalidate"
    /\ IF can[c].err # "nil"
       THEN /\ can' = [can EXCEPT ![c].pc = "done", ![c].result = can[c].err]
            /\ UNCHANGED <<orderCache, goroutines>>
       ELSE /\ orderCache' = [orderCache EXCEPT ![can[c].orderID] = None]
            /\ can' = [can EXCEPT ![c].pc = "done", ![c].result = "ok"]
            /\ goroutines' = goroutines \cup
                  {[by |-> "CancelOrder", worker |-> c, orderID |-> can[c].orderID,
                    userID |-> can[c].userID, totalPrice |-> 0,
                    status |-> "cancelled", outcome |-> "running", attempts |-> 0]}
    /\ UNCHANGED <<orders, cre>>
    /\ UNCHANGED <<ledgerVars, brokerVars>>

(***************************************************************************)
(* The exchange "orders", the queues bound to it and the messages.         *)
(***************************************************************************)
Instances == 1..NumInstances

ExchangeKind == "fanout"   \* ExchangeDeclare("orders", "fanout", ...)
PublishKey == ""           \* Publish("orders", "", ...)
NotificationsQueue == "notifications"
AuditQueue == "audit"      \* a queue some other subscriber binds
QueueNames == {NotificationsQueue, AuditQueue}
BindingKeys == {"", "audit"}

\* OrderEvent with its zero value; json.Marshal and json.Unmarshal of it
ZeroEvent == [orderID |-> 0, userID |-> "", totalPrice |-> 0, status |-> ""]
Marshal(event) == [json |-> "object", event |-> event]
MalformedBody == [json |-> "garbage", event |-> ZeroEvent]
Unmarshal(body) ==
    IF body.json = "object" THEN [err |-> "nil", event |-> body.event]
    ELSE [err |-> "invalid character", event |-> ZeroEvent]

NoMsg == [id |-> <<None, 0>>, body |-> MalformedBody, redelivered |-> FALSE]

\* the queues an exchange of this kind routes a message with this key to
RouteDirect(kind, bound, key) == {b.queue : b \in {x \in bound : x.key = key}}
Route(kind, bound, key) ==
    IF kind = "fanout" THEN {b.queue : b \in bound}
    ELSE {b.queue : b \in {x \in bound : x.key = key}}

Enqueue(qs, targets, m) ==
    [q \in DOMAIN qs |-> IF q \in targets THEN Append(qs[q], m) ELSE qs[q]]

\* an instance before NewRabbitMQConsumer: no channel, nothing delivered
IdleConsumer == [up |-> FALSE, unacked |-> <<>>, pc |-> "wait", msg |-> NoMsg,
                 verdict |-> None, shutdowns |-> 0]

InitBroker ==
    /\ bindings = {}
    /\ queues = [q \in QueueNames |-> <<>>]
    /\ consumers = [k \in Instances |-> IdleConsumer]
    /\ notifications = <<>>
    /\ history = [acked |-> {}, rejected |-> {}]

\* the order side with CreateOrder requests W and CancelOrder requests C
InitOrders(W, C) ==
    /\ orders = [o \in W |-> NoOrder]
    /\ orderCache = [o \in W |-> None]
    /\ cre = [w \in W |-> IdleCre]
    /\ can = [c \in C |-> IdleCan]
    /\ goroutines = {}
    /\ InitBroker

InitStock ==
    /\ stock \in [ProductRows -> 0..MaxStock]
    /\ initialStock = stock
    /\ rowLock = [p \in ProductRows |-> {}]
    /\ adj = [a \in Adjusters |-> IdleAdj]

\* every product fully stocked, no UpdateStock request
InitStockFull ==
    /\ stock = [p \in ProductRows |-> MaxStock]
    /\ initialStock = stock
    /\ rowLock = [p \in ProductRows |-> {}]
    /\ adj = [a \in Adjusters |-> IdleAdj]

InitLedger == InitStock /\ InitOrders({}, {})

NextLedger ==
    \/ \E a \in Adjusters, p \in ProductIds, d \in Deltas : UpdateStockCall(a, p, d)
    \/ \E a \in Adjusters : UpdateStockSelect(a)
    \/ \E a \in Adjusters : UpdateStockFinish(a)

SpecLedger == InitLedger /\ [][NextLedger]_vars

(***************************************************************************)
(* SpecCheckout: concurrent CreateOrder requests.                          *)
(***************************************************************************)
InitCheckout ==
    /\ InitStock
    /\ InitOrders(Creators, {})

NextCheckout ==
    \/ \E w \in DOMAIN cre, u \in OrderUsers, items \in Requests :
          CreateOrderPersist(w, u, items)
    \/ \E w \in DOMAIN cre : CreateOrderReserve(w)
    \/ \E w \in DOMAIN cre : CreateOrderReturn(w)

SpecCheckout == InitCheckout /\ [][NextCheckout]_vars

(***************************************************************************)
(* Spec: CreateOrder and CancelOrder requests running concurrently.        *)
(***************************************************************************)
Init ==
    /\ InitStock
    /\ InitOrders(LifecycleOrders, Cancellers)

Next ==
    \/ \E w \in DOMAIN cre, u \in OrderUsers, items \in Requests :
          CreateOrderPersist(w, u, items)
    \/ \E w \in DOMAIN cre : CreateOrderReserve(w)
    \/ \E w \in DOMAIN cre : CreateOrderReturn(w)
    \/ \E c \in DOMAIN can, o \in DOMAIN orders, u \in CancelUsers :
          CancelOrderGet(c, o, u)
    \/ \E c \in DOMAIN can : CancelOrderQuery(c)
    \/ \E c \in DOMAIN can : CancelOrderFill(c)
    \/ \E c \in DOMAIN can : CancelOrderUpdate(c)
    \/ \E c \in DOMAIN can : CancelOrderReturn(c)

Spec == Init /\ [][Next]_vars

(***************************************************************************)
(* SpecApi: POST /api/v1/orders.  Each request of the run is identified by *)
(* what it carries: the X-User-ID header and the items of the body.        *)
(***************************************************************************)
DefaultUserID == "test-user-123"
ApiHeaders == {"", "u1"}
ApiBodies ==
    {<<>>} \cup SeqsUpTo([productID : {"p1"}, quantity : {1, MockStock + 1}], MaxItems)
ApiRequests == [userID : ApiHeaders, items : ApiBodies]

\* ShouldBindJSON on CreateOrderRequest: items is required, min=1
ShouldBindJSON(body) == IF Len(body) < 1 THEN "Invalid request" ELSE "nil"

\* OrderHandler.CreateOrder: the user id from the header or the default, the
\* binding of the body (400 when it fails), then the service's CreateOrder
HandlerCreateOrder(w) ==
    /\ cre[w].pc = "idle"
    /\ LET userID == IF w.userID = "" THEN DefaultUserID ELSE w.userID IN
       IF ShouldBindJSON(w.items) # "nil"
       THEN /\ cre' = [cre EXCEPT ![w].pc = "done", ![w].result = "InvalidRequest"]
            /\ UNCHANGED <<orders, orderCache, can, goroutines>>
            /\ UNCHANGED <<ledgerVars, brokerVars>>
       ELSE CreateOrderPersist(w, userID, w.items)

InitApi ==
    /\ InitStockFull
    /\ \E f \in [1..MaxRequests -> ApiRequests] :
          InitOrders({f[i] : i \in 1..MaxRequests}, {})

NextApi ==
    \/ \E w \in DOMAIN cre : HandlerCreateOrder(w)
    \/ \E w \in DOMAIN cre : CreateOrderReserve(w)
    \/ \E w \in DOMAIN cre : CreateOrderReturn(w)

SpecApi == InitApi /\ [][NextApi]_vars

(***************************************************************************)
(* SpecCreate: OrderRepository.Create, statement by statement.  The rows   *)
(* a transaction has inserted are its own (cre[w].tx) until it commits.    *)
(***************************************************************************)
\* the orders the service hands to Create: user, priced items, total
CreateItems == [productID : {"p1", LongProductID}, quantity : {1},
                price : {MockPriceCents}]
CreateInputs == SeqsUpTo(CreateItems, MaxItems)

\* what the other sessions see of the table after a statement of an open
\* transaction wrote row as the order o: the table as committed
UncommittedWriteVisible(table, o, row) == [table EXCEPT ![o] = row]
UncommittedWrite(table, o, row) == table

\* BeginTx, defer Rollback, the id, the timestamps, Status = "pending"
CreateBeginTx(w, u, items) ==
    /\ cre[w].pc = "idle"
    /\ cre' = [cre EXCEPT ![w].pc = "insertOrder", ![w].userID = u,
                          ![w].items = items, ![w].tx = NoOrder]
    /\ UNCHANGED <<orders, orderCache, can, goroutines>>
    /\ UNCHANGED <<ledgerVars, brokerVars>>

\* INSERT INTO orders
CreateInsertOrder(w) ==
    /\ cre[w].pc = "insertOrder"
    /\ LET row == [cre[w].tx EXCEPT !.status = "pending", !.userID = cre[w].userID,
                                    !.totalPrice = TotalPrice(cre[w].items, 1)] IN
       /\ cre' = [cre EXCEPT ![w].pc = "insertItems", ![w].tx = row]
       /\ orders' = UncommittedWrite(orders, w, row)
    /\ UNCHANGED <<orderCache, can, goroutines>>
    /\ UNCHANGED <<ledgerVars, brokerVars>>

\* one round of the loop over order.Items: INSERT INTO order_items; on an
\* error Create returns and the deferred Rollback drops the transaction
CreateInsertItem(w) ==
    /\ cre[w].pc = "insertItems"
    /\ Len(cre[w].tx.items) < Len(cre[w].items)
    /\ LET item == cre[w].items[Len(cre[w].tx.items) + 1]
           row == [cre[w].tx EXCEPT !.items = Append(@, item)] IN
       IF InsertItemErr(item) # "nil"
       THEN /\ cre' = [cre EXCEPT ![w].pc = "done", ![w].tx = NoOrder,
                                  ![w].result = InsertItemErr(item)]
            /\ UNCHANGED orders
       ELSE /\ cre' = [cre EXCEPT ![w].tx = row]
            /\ orders' = UncommittedWrite(orders, w, row)
    /\ UNCHANGED <<orderCache, can, goroutines>>
    /\ UNCHANGED <<ledgerVars, brokerVars>>

\* tx.Commit, return nil
CreateCommit(w) ==
    /\ cre[w].pc = "insertItems"
    /\ Len(cre[w].tx.items) = Len(cre[w].items)
    /\ orders' = [orders EXCEPT ![w] = cre[w].tx]
    /\ cre' = [cre EXCEPT ![w].pc = "done", ![w].tx = NoOrder, ![w].result = "ok"]
    /\ UNCHANGED <<orderCache, can, goroutines>>
    /\ UNCHANGED <<ledgerVars, brokerVars>>

InitCreate ==
    /\ InitStockFull
    /\ InitOrders(Creators, {})

NextCreate ==
    \/ \E w \in DOMAIN cre, u \in OrderUsers, items \in CreateInputs :
          CreateBeginTx(w, u, items)
    \/ \E w \in DOMAIN cre : CreateInsertOrder(w)
    \/ \E w \in DOMAIN cre : CreateInsertItem(w)
    \/ \E w \in DOMAIN cre : CreateCommit(w)

SpecCreate == InitCreate /\ [][NextCreate]_vars

(***************************************************************************)
(* SpecEvents: CreateOrder with the outcomes of its environment: the       *)
(* UPDATE of UpdateStatus can return an error, and each publish goroutine  *)
(* runs PublishOrderEvent, which succeeds or fails.                        *)
(***************************************************************************)
ExecErrs == {"nil", "failed to update order status"}
PublishErrs == {"nil", "failed to publish message"}

EventItems == [productID : {"p1", LongProductID}, quantity : {1, MockStock + 1}]
EventRequests == SeqsUpTo(EventItems, MaxItems)

\* CreateOrder steps 5-6 when ExecContext of the UPDATE returns execErr.  On
\* an error UpdateStatus returns before the Del; after reserveStock failed
\* the error is dropped and the reservation error returned; after it
\* succeeded the error is logged, the publish goroutine is started and the
\* order is returned
CreateOrderReserveExec(w, execErr) ==
    IF execErr = "nil" THEN CreateOrderReserve(w)
    ELSE /\ cre[w].pc = "created"
         /\ LET r == reserveStock(stock, cre[w].items) IN
            /\ stock' = r.ledger
            /\ IF r.err # "nil"
               THEN /\ cre' = [cre EXCEPT ![w].pc = "done", ![w].err = r.err,
                                          ![w].result = r.err]
                    /\ UNCHANGED goroutines
               ELSE /\ cre' = [cre EXCEPT ![w].pc = "done", ![w].err = r.err,
                                          ![w].result = "ok"]
                    /\ goroutines' = goroutines \cup
                          {[by |-> "CreateOrder", worker |-> w, orderID |-> w,
                            userID |-> cre[w].userID,
                            totalPrice |-> TotalPrice(cre[w].items, 1),
                            status |-> "confirmed", outcome |-> "running",
                            attempts |-> 0]}
         /\ UNCHANGED <<orders, orderCache, can>>
         /\ UNCHANGED <<initialStock, rowLock, adj, brokerVars>>

\* the goroutine after PublishOrderEvent returned err: the error is logged
\* and the goroutine ends
AfterPublishRetrying(err) == IF err = "nil" THEN "published" ELSE "running"
AfterPublish(err) == IF err = "nil" THEN "published" ELSE "failed"

\* a publisher that hands the event over only to an idle consumer
PublishOrderEventWhenDrained(g, err) ==
    /\ g \in goroutines
    /\ g.outcome = "running"
    /\ \A q \in QueueNames : queues[q] = <<>>
    /\ \A k \in DOMAIN consumers : consumers[k].unacked = <<>>
    /\ goroutines' = (goroutines \ {g}) \cup
          {[g EXCEPT !.outcome = AfterPublish(err), !.attempts = @ + 1]}
    /\ LET m == [id |-> <<g.by, g.worker>>,
                 body |-> Marshal([orderID |-> g.orderID, userID |-> g.userID,
                                   totalPrice |-> g.totalPrice, status |-> g.status]),
                 redelivered |-> FALSE] IN
       queues' = IF err = "nil"
                 THEN Enqueue(queues, Route(ExchangeKind, bindings, PublishKey), m)
                 ELSE queues
    /\ UNCHANGED <<orders, orderCache, cre, can>>
    /\ UNCHANGED <<bindings, consumers, notifications, history>>
    /\ UNCHANGED ledgerVars
\* a publish goroutine calls PublishOrderEvent: the event is marshalled and
\* channel.Publish on the exchange "orders" returns err; when it succeeded
\* the exchange has routed the message to the queues bound to it
PublishOrderEvent(g, err) ==
    /\ g \in goroutines
    /\ g.outcome = "running"
    /\ goroutines' = (goroutines \ {g}) \cup
          {[g EXCEPT !.outcome = AfterPublish(err), !.attempts = @ + 1]}
    /\ LET event == [orderID |-> g.orderID, userID |-> g.userID,
                     totalPrice |-> g.totalPrice, status |-> g.status]
           m == [id |-> <<g.by, g.worker>>, body |-> Marshal(event),
                 redelivered |-> FALSE] IN
       queues' = IF err = "nil"
                 THEN Enqueue(queues, Route(ExchangeKind, bindings, PublishKey), m)
                 ELSE queues
    /\ UNCHANGED <<orders, orderCache, cre, can>>
    /\ UNCHANGED <<bindings, consumers, notifications, history>>
    /\ UNCHANGED ledgerVars

InitEvents ==
    /\ InitStockFull
    /\ InitOrders(Creators, {})

NextEvents ==
    \/ \E w \in DOMAIN cre, u \in OrderUsers, items \in EventRequests :
          CreateOrderPersist(w, u, items)
    \/ \E w \in DOMAIN cre, execErr \in ExecErrs : CreateOrderReserveExec(w, execErr)
    \/ \E w \in DOMAIN cre : CreateOrderReturn(w)
    \/ \E g \in goroutines, err \in PublishErrs : PublishOrderEvent(g, err)

SpecEvents == InitEvents /\ [][NextEvents]_vars

(***************************************************************************)
(* SpecCancel: one CreateOrder of one item and CancelOrder calls on its    *)
(* order, from its owner and from another user.                            *)
(***************************************************************************)
CancelCalls == 1..NumCancelCalls
CancelledRequest == <<[productID |-> "p1", quantity |-> 1]>>

InitCancel ==
    /\ InitStockFull
    /\ InitOrders(LifecycleOrders, CancelCalls)

NextCancel ==
    \/ \E w \in DOMAIN cre, u \in OrderUsers : CreateOrderPersist(w, u, CancelledRequest)
    \/ \E w \in DOMAIN cre : CreateOrderReserve(w)
    \/ \E w \in DOMAIN cre : CreateOrderReturn(w)
    \/ \E c \in DOMAIN can, o \in DOMAIN orders, u \in CancelUsers :
          CancelOrderGet(c, o, u)
    \/ \E c \in DOMAIN can : CancelOrderQuery(c)
    \/ \E c \in DOMAIN can : CancelOrderFill(c)
    \/ \E c \in DOMAIN can : CancelOrderUpdate(c)
    \/ \E c \in DOMAIN can : CancelOrderReturn(c)

SpecCancel == InitCancel /\ [][NextCancel]_vars

(***************************************************************************)
(* SpecFanout: CreateOrder requests publishing to the exchange while       *)
(* subscribers bind their queues to it.                                    *)
(***************************************************************************)
\* QueueBind(queue, key, "orders"): by the notification service with the
\* key "", by any other subscriber with a key of its own
BindQueue(q, key) ==
    /\ bindings' = bindings \cup {[queue |-> q, key |-> key]}
    /\ UNCHANGED <<queues, consumers, notifications, history>>
    /\ UNCHANGED <<ledgerVars, orderVars>>

InitFanout ==
    /\ InitStockFull
    /\ InitOrders(Creators, {})

NextFanout ==
    \/ \E q \in QueueNames, key \in BindingKeys : BindQueue(q, key)
    \/ \E w \in DOMAIN cre, u \in OrderUsers : CreateOrderPersist(w, u, CancelledRequest)
    \/ \E w \in DOMAIN cre : CreateOrderReserve(w)
    \/ \E w \in DOMAIN cre : CreateOrderReturn(w)
    \/ \E g \in goroutines, err \in PublishErrs : PublishOrderEvent(g, err)

SpecFanout == InitFanout /\ [][NextFanout]_vars

(***************************************************************************)
(* SpecConsumer: the notification service consuming the queue              *)
(* "notifications" while one order is created and cancelled.               *)
(***************************************************************************)
PrefetchCount == 1   \* channel.Qos(1, 0, false)
DbErrs == {"nil", "failed to save notification"}

\* the broker may send one more delivery to a channel with these unacked
MayDeliverUnlimited(unacked) == TRUE
MayDeliver(unacked) == Len(unacked) < PrefetchCount

\* what processMessage does with the delivery: Nack(false, false) after a
\* parse error, Nack(false, true) after a handler error, Ack(false) otherwise
VerdictRequeueOnParseError(parseErr, handlerErr) ==
    IF parseErr # "nil" \/ handlerErr # "nil" THEN "requeue" ELSE "ack"
VerdictDropOnHandlerError(parseErr, handlerErr) ==
    IF parseErr # "nil" \/ handlerErr # "nil" THEN "reject" ELSE "ack"
VerdictNeverAck(parseErr, handlerErr) ==
    IF parseErr # "nil" THEN "reject" ELSE "requeue"
Verdict(parseErr, handlerErr) ==
    IF parseErr # "nil" THEN "reject"
    ELSE IF handlerErr # "nil" THEN "requeue"
    ELSE "ack"

\* SendOrderConfirmation / SendOrderCancellation: repo.Create inserts a new
\* row (its error dbErr is returned), sendNotification logs, UpdateStatus
\* marks the row sent
SendNotification(table, event, subject, dbErr) ==
    IF dbErr # "nil" THEN [err |-> dbErr, table |-> table]
    ELSE [err |-> "nil",
          table |-> Append(table, [userID |-> event.userID, subject |-> subject,
                                   orderID |-> event.orderID, status |-> "sent"])]

\* a switch whose default sends a confirmation
HandleEventNotifyingAll(table, event, dbErr) ==
    IF event.status = "cancelled"
    THEN SendNotification(table, event, "Order Cancelled", dbErr)
    ELSE SendNotification(table, event, "Order Confirmation", dbErr)

\* the switch on event.Status
HandleEvent(table, event, dbErr) ==
    IF event.status = "confirmed"
    THEN SendNotification(table, event, "Order Confirmation", dbErr)
    ELSE IF event.status = "cancelled"
    THEN SendNotification(table, event, "Order Cancelled", dbErr)
    ELSE [err |-> "nil", table |-> table]

\* a sequence of messages without the one with this id
WithoutId(ms, id) == SelectSeq(ms, LAMBDA m : m.id # id)
\* the deliveries put back on a queue: flagged redelivered
Requeued(ms) == [i \in 1..Len(ms) |-> [ms[i] EXCEPT !.redelivered = TRUE]]
IdsOf(ms) == {ms[i].id : i \in 1..Len(ms)}

\* NewRabbitMQConsumer and StartConsuming: the queue is declared and bound
\* with the key "", the channel consumes with manual acknowledgement
StartConsumer(k) ==
    /\ ~consumers[k].up
    /\ consumers[k].pc = "wait"
    /\ bindings' = bindings \cup {[queue |-> NotificationsQueue, key |-> PublishKey]}
    /\ consumers' = [consumers EXCEPT ![k].up = TRUE]
    /\ UNCHANGED <<queues, notifications, history>>
    /\ UNCHANGED <<ledgerVars, orderVars>>

\* the broker sends the oldest ready message to a consuming channel that
\* has room under its prefetch count
Deliver(k) ==
    /\ consumers[k].up
    /\ MayDeliver(consumers[k].unacked)
    /\ queues[NotificationsQueue] # <<>>
    /\ consumers' = [consumers EXCEPT
                       ![k].unacked = Append(@, Head(queues[NotificationsQueue]))]
    /\ queues' = [queues EXCEPT ![NotificationsQueue] = Tail(@)]
    /\ UNCHANGED <<bindings, notifications, history>>
    /\ UNCHANGED <<ledgerVars, orderVars>>

\* for msg := range messages: the loop takes the next delivery
Receive(k) ==
    /\ consumers[k].pc = "wait"
    /\ consumers[k].unacked # <<>>
    /\ consumers' = [consumers EXCEPT ![k].pc = "received",
                                      ![k].msg = Head(consumers[k].unacked)]
    /\ UNCHANGED <<bindings, queues, notifications, history>>
    /\ UNCHANGED <<ledgerVars, orderVars>>

\* processMessage up to the acknowledgement: json.Unmarshal, then the
\* handler for the event's status
ProcessMessage(k, dbErr) ==
    /\ consumers[k].pc = "received"
    /\ LET parsed == Unmarshal(consumers[k].msg.body)
           handled == IF parsed.err # "nil"
                      THEN [err |-> "nil", table |-> notifications]
                      ELSE HandleEvent(notifications, parsed.event, dbErr) IN
       /\ notifications' = handled.table
       /\ consumers' = [consumers EXCEPT ![k].pc = "settle",
                          ![k].verdict = Verdict(parsed.err, handled.err)]
    /\ UNCHANGED <<bindings, queues, history>>
    /\ UNCHANGED <<ledgerVars, orderVars>>

\* msg.Ack / msg.Nack on the channel; on a closed channel they return an
\* error nobody reads.  Ack and Nack without requeue remove the message,
\* Nack with requeue puts it back at the front of the queue.
Settle(k) ==
    /\ consumers[k].pc = "settle"
    /\ LET m == consumers[k].msg
           open == consumers[k].up /\ m.id \in IdsOf(consumers[k].unacked) IN
       /\ consumers' = [consumers EXCEPT
             ![k].pc = "wait", ![k].msg = NoMsg, ![k].verdict = None,
             ![k].unacked = IF open THEN WithoutId(@, m.id) ELSE @]
       /\ queues' = IF open /\ consumers[k].verdict = "requeue"
                    THEN [queues EXCEPT ![NotificationsQueue] = Requeued(<<m>>) \o @]
                    ELSE queues
       /\ history' = IF open /\ consumers[k].verdict = "ack"
                     THEN [history EXCEPT !.acked = @ \cup {m.id}]
                     ELSE IF open /\ consumers[k].verdict = "reject"
                     THEN [history EXCEPT !.rejected = @ \cup {m.id}]
                     ELSE history
    /\ UNCHANGED <<bindings, notifications>>
    /\ UNCHANGED <<ledgerVars, orderVars>>

\* main, on SIGINT/SIGTERM: consumer.Close() closes the channel while the
\* consuming goroutine may be inside processMessage; the broker puts the
\* channel's unacknowledged deliveries back on the queue
Shutdown(k) ==
    /\ consumers[k].up
    /\ consumers[k].shutdowns < MaxShutdowns
    /\ queues' = [queues EXCEPT
                    ![NotificationsQueue] = Requeued(consumers[k].unacked) \o @]
    /\ consumers' = [consumers EXCEPT ![k].up = FALSE, ![k].unacked = <<>>,
                                      ![k].shutdowns = @ + 1]
    /\ UNCHANGED <<bindings, notifications, history>>
    /\ UNCHANGED <<ledgerVars, orderVars>>

\* some other publisher puts a body that is not an OrderEvent on the
\* exchange
ForeignId == <<"foreign", 0>>
PublishMalformed ==
    /\ ForeignId \notin history.rejected \cup history.acked
    /\ \A q \in QueueNames : ForeignId \notin IdsOf(queues[q])
    /\ \A k \in Instances : ForeignId \notin IdsOf(consumers[k].unacked)
    /\ queues' = Enqueue(queues, Route(ExchangeKind, bindings, PublishKey),
                         [id |-> ForeignId, body |-> MalformedBody,
                          redelivered |-> FALSE])
    /\ UNCHANGED <<bindings, consumers, notifications, history>>
    /\ UNCHANGED <<ledgerVars, orderVars>>

InitConsumer ==
    /\ InitStockFull
    /\ InitOrders(LifecycleOrders, LifecycleOrders)

NextConsumer ==
    \/ \E w \in DOMAIN cre, u \in OrderUsers : CreateOrderPersist(w, u, CancelledRequest)
    \/ \E w \in DOMAIN cre : CreateOrderReserve(w)
    \/ \E w \in DOMAIN cre : CreateOrderReturn(w)
    \/ \E c \in DOMAIN can, o \in DOMAIN orders, u \in OrderUsers :
          CancelOrderGet(c, o, u)
    \/ \E c \in DOMAIN can : CancelOrderQuery(c)
    \/ \E c \in DOMAIN can : CancelOrderFill(c)
    \/ \E c \in DOMAIN can : CancelOrderUpdate(c)
    \/ \E c \in DOMAIN can : CancelOrderReturn(c)
    \/ \E g \in goroutines, err \in PublishErrs : PublishOrderEvent(g, err)
    \/ PublishMalformed
    \/ \E k \in Instances : StartConsumer(k)
    \/ \E k \in Instances : Deliver(k)
    \/ \E k \in Instances : Receive(k)
    \/ \E k \in Instances, dbErr \in DbErrs : ProcessMessage(k, dbErr)
    \/ \E k \in Instances : Settle(k)
    \/ \E k \in Instances : Shutdown(k)

SpecConsumer == InitConsumer /\ [][NextConsumer]_vars


(***************************************************************************)
(* SpecConsumerFair: SpecConsumer with the scheduling the broker and the   *)
(* consuming goroutine give.  The service comes up again after it went     *)
(* down, the loop over the delivery channel keeps taking deliveries and    *)
(* processMessage runs to its acknowledgement; the broker hands a ready    *)
(* message to a consuming channel that has room for it.  Nothing is        *)
(* assumed about the publishers or about the database.                     *)
(***************************************************************************)
MessageIds ==
    {ForeignId} \cup {<<"CreateOrder", w>> : w \in LifecycleOrders}
                \cup {<<"CancelOrder", c>> : c \in LifecycleOrders}

\* the broker delivers the message with this id to instance k
DeliverMessage(k, id) ==
    /\ queues[NotificationsQueue] # <<>>
    /\ Head(queues[NotificationsQueue]).id = id
    /\ Deliver(k)

ConsumerFairness ==
    \A k \in Instances :
        /\ WF_vars(StartConsumer(k))
        /\ WF_vars(Receive(k))
        /\ WF_vars(\E dbErr \in DbErrs : ProcessMessage(k, dbErr))
        /\ WF_vars(Settle(k))
        /\ \A id \in MessageIds : SF_vars(DeliverMessage(k, id))

SpecConsumerFair == InitConsumer /\ [][NextConsumer]_vars /\ ConsumerFairness


(***************************************************************************)
(* SpecProducerFair: SpecConsumer where only the order service is          *)
(* scheduled fairly: a request that entered CreateOrder or CancelOrder     *)
(* runs on, and a publishing goroutine that was started runs.  The         *)
(* notification service gets no fairness at all: it may stop at any point, *)
(* with a delivery it never acknowledges.                                  *)
(***************************************************************************)
ProducerFairness ==
    /\ \A w \in LifecycleOrders :
          /\ WF_vars(CreateOrderReserve(w))
          /\ WF_vars(CreateOrderReturn(w))
    /\ \A c \in LifecycleOrders :
          /\ WF_vars(CancelOrderQuery(c))
          /\ WF_vars(CancelOrderFill(c))
          /\ WF_vars(CancelOrderUpdate(c))
          /\ WF_vars(CancelOrderReturn(c))
    /\ WF_vars(\E g \in goroutines, err \in PublishErrs : PublishOrderEvent(g, err))

SpecProducerFair == InitConsumer /\ [][NextConsumer]_vars /\ ProducerFairness


(***************************************************************************)
(* SpecAdjust: UpdateStock with its write error and with the cache         *)
(* invalidation that follows the commit as a step of its own.              *)
(* SpecAdjustFair adds the scheduling: a request that has started runs on, *)
(* and a SELECT ... FOR UPDATE that can get the row gets it.               *)
(***************************************************************************)
StockWriteErrs == {"nil", "failed to update stock"}

\* Commit, or the deferred Rollback on an early return, ends the
\* transaction: the row lock of a is gone
ReleaseRowNever(lock, p, a) == lock
ReleaseRow(lock, p, a) == [lock EXCEPT ![p] = @ \ {a}]

\* the check, UPDATE products SET stock = newStock (execErr) and Commit; an
\* early return runs the deferred Rollback
UpdateStockWrite(a, execErr) ==
    /\ adj[a].pc = "locked"
    /\ LET p == adj[a].productID
           d == adj[a].quantity
           c == adj[a].currentStock IN
       /\ rowLock' = ReleaseRow(rowLock, p, a)
       /\ IF Insufficient(c, d)
          THEN /\ adj' = [adj EXCEPT ![a].pc = "done",
                                     ![a].result = "InsufficientStock"]
               /\ UNCHANGED stock
          ELSE IF execErr # "nil"
          THEN /\ adj' = [adj EXCEPT ![a].pc = "done", ![a].result = execErr]
               /\ UNCHANGED stock
          ELSE /\ stock' = [stock EXCEPT ![p] = NewStock(c, d)]
               /\ adj' = [adj EXCEPT ![a].pc = "invalidate"]
    /\ UNCHANGED initialStock
    /\ UNCHANGED <<orderVars, brokerVars>>

\* r.redis.Del(ctx, cacheKey); return nil
UpdateStockInvalidate(a) ==
    /\ adj[a].pc = "invalidate"
    /\ adj' = [adj EXCEPT ![a].pc = "done", ![a].result = "ok"]
    /\ UNCHANGED <<stock, initialStock, rowLock>>
    /\ UNCHANGED <<orderVars, brokerVars>>

InitAdjust == InitStock /\ InitOrders({}, {})

NextAdjust ==
    \/ \E a \in Adjusters, p \in ProductIds, d \in Deltas : UpdateStockCall(a, p, d)
    \/ \E a \in Adjusters : UpdateStockSelect(a)
    \/ \E a \in Adjusters, execErr \in StockWriteErrs : UpdateStockWrite(a, execErr)
    \/ \E a \in Adjusters : UpdateStockInvalidate(a)

SpecAdjust == InitAdjust /\ [][NextAdjust]_vars

AdjustFairness ==
    \A a \in Adjusters :
        /\ WF_vars(UpdateStockSelect(a))
        /\ WF_vars(\E execErr \in StockWriteErrs : UpdateStockWrite(a, execErr))
        /\ WF_vars(UpdateStockInvalidate(a))

SpecAdjustFair == SpecAdjust /\ AdjustFairness


(***************************************************************************)
(* SpecFrame: one order is created and cancelled while UpdateStock         *)
(* requests change the stock of the products it names.                     *)
(***************************************************************************)
InitFrame ==
    /\ InitStockFull
    /\ InitOrders(LifecycleOrders, LifecycleOrders)

NextFrame ==
    \/ \E w \in DOMAIN cre, u \in OrderUsers : CreateOrderPersist(w, u, CancelledRequest)
    \/ \E w \in DOMAIN cre : CreateOrderReserve(w)
    \/ \E w \in DOMAIN cre : CreateOrderReturn(w)
    \/ \E c \in DOMAIN can, o \in DOMAIN orders, u \in OrderUsers :
          CancelOrderGet(c, o, u)
    \/ \E c \in DOMAIN can : CancelOrderQuery(c)
    \/ \E c \in DOMAIN can : CancelOrderFill(c)
    \/ \E c \in DOMAIN can : CancelOrderUpdate(c)
    \/ \E c \in DOMAIN can : CancelOrderReturn(c)
    \/ \E a \in Adjusters, p \in ProductRows, d \in Deltas : UpdateStockCall(a, p, d)
    \/ \E a \in Adjusters : UpdateStockSelect(a)
    \/ \E a \in Adjusters : UpdateStockFinish(a)

SpecFrame == InitFrame /\ [][NextFrame]_vars


(***************************************************************************)
(* SpecRead: GetOrderByID and GetOrderStatus calls by the owner and by     *)
(* another user while one order is created and cancelled.  Every call of   *)
(* the run is one entry of can; a read ends at pc "read" (GetOrderByID,    *)
(* seen is the order returned) or "status" (GetOrderStatus, seen is the    *)
(* status returned).                                                       *)
(***************************************************************************)
ReadCalls == 1..NumReadCalls

\* OrderRepository.GetByID: the cached copy when the key is there, else the
\* row and its items, "order not found" without a row
GetByID(table, cache, o) ==
    IF cache[o] # None
    THEN [err |-> "nil", order |-> [table[o] EXCEPT !.status = cache[o]]]
    ELSE IF table[o].status = None
    THEN [err |-> "order not found", order |-> NoOrder]
    ELSE [err |-> "nil", order |-> table[o]]

\* GetByID's redis Set after a miss that found the row
CacheAfterGetByID(table, cache, o) ==
    IF cache[o] = None /\ table[o].status # None
    THEN [cache EXCEPT ![o] = table[o].status]
    ELSE cache

\* OrderService.GetOrderByID: ErrOrderNotFound, unauthorized, or the order
GetOrderByIDAnyUser(table, cache, o, u) ==
    LET r == GetByID(table, cache, o) IN
    IF r.err # "nil" THEN [err |-> "ErrOrderNotFound", order |-> NoOrder]
    ELSE [err |-> "nil", order |-> r.order]
GetOrderByID(table, cache, o, u) ==
    LET r == GetByID(table, cache, o) IN
    IF r.err # "nil" THEN [err |-> "ErrOrderNotFound", order |-> NoOrder]
    ELSE IF r.order.userID # u
    THEN [err |-> "unauthorized access to order", order |-> NoOrder]
    ELSE [err |-> "nil", order |-> r.order]

\* OrderService.GetOrderStatus: the error of GetOrderByID with "", or the
\* status of the order it returned
GetOrderStatus(table, cache, o, u) ==
    LET r == GetOrderByID(table, cache, o, u) IN
    IF r.err # "nil" THEN [err |-> r.err, status |-> ""]
    ELSE [err |-> "nil", status |-> r.order.status]

GetOrderByIDCall(c, o, u) ==
    /\ can[c].pc = "idle"
    /\ LET r == GetOrderByID(orders, orderCache, o, u) IN
       can' = [can EXCEPT ![c] =
                 [IdleCan EXCEPT !.pc = "read", !.orderID = o, !.userID = u,
                                 !.seen = r.order, !.result = r.err]]
    /\ orderCache' = CacheAfterGetByID(orders, orderCache, o)
    /\ UNCHANGED <<orders, cre, goroutines>>
    /\ UNCHANGED <<ledgerVars, brokerVars>>

GetOrderStatusCall(c, o, u) ==
    /\ can[c].pc = "idle"
    /\ LET r == GetOrderStatus(orders, orderCache, o, u) IN
       can' = [can EXCEPT ![c] =
                 [IdleCan EXCEPT !.pc = "status", !.orderID = o, !.userID = u,
                                 !.seen = r.status, !.result = r.err]]
    /\ orderCache' = CacheAfterGetByID(orders, orderCache, o)
    /\ UNCHANGED <<orders, cre, goroutines>>
    /\ UNCHANGED <<ledgerVars, brokerVars>>

InitRead ==
    /\ InitStockFull
    /\ InitOrders(LifecycleOrders, ReadCalls)

\* the orders read: one item, any quantity
ReadRequests == {<<[productID |-> "p1", quantity |-> q]>> : q \in 1..MaxQuantity}

NextRead ==
    \/ \E w \in DOMAIN cre, u \in OrderUsers, items \in ReadRequests :
          CreateOrderPersist(w, u, items)
    \/ \E w \in DOMAIN cre : CreateOrderReserve(w)
    \/ \E w \in DOMAIN cre : CreateOrderReturn(w)
    \/ \E c \in DOMAIN can, o \in DOMAIN orders, u \in OrderUsers :
          CancelOrderGet(c, o, u)
    \/ \E c \in DOMAIN can : CancelOrderQuery(c)
    \/ \E c \in DOMAIN can : CancelOrderFill(c)
    \/ \E c \in DOMAIN can : CancelOrderUpdate(c)
    \/ \E c \in DOMAIN can : CancelOrderReturn(c)
    \/ \E c \in DOMAIN can, o \in DOMAIN orders, u \in CancelUsers :
          GetOrderByIDCall(c, o, u)
    \/ \E c \in DOMAIN can, o \in DOMAIN orders, u \in CancelUsers :
          GetOrderStatusCall(c, o, u)

SpecRead == InitRead /\ [][NextRead]_vars


(***************************************************************************)
(* SpecOtherStatus: SpecConsumer with one more publisher on the exchange,  *)
(* whose OrderEvent has a status the consumer has no handler for.          *)
(***************************************************************************)
OtherId == <<"other", 0>>
OtherStatus == "shipped"

PublishOtherStatus ==
    /\ OtherId \notin history.rejected \cup history.acked
    /\ \A q \in QueueNames : OtherId \notin IdsOf(queues[q])
    /\ \A k \in Instances : OtherId \notin IdsOf(consumers[k].unacked)
    /\ queues' = Enqueue(queues, Route(ExchangeKind, bindings, PublishKey),
                         [id |-> OtherId,
                          body |-> Marshal([ZeroEvent EXCEPT !.orderID = 1,
                                                             !.userID = "u1",
                                                             !.status = OtherStatus]),
                          redelivered |-> FALSE])
    /\ UNCHANGED <<bindings, consumers, notifications, history>>
    /\ UNCHANGED <<ledgerVars, orderVars>>

NextOtherStatus ==
    \/ \E w \in DOMAIN cre, u \in OrderUsers : CreateOrderPersist(w, u, CancelledRequest)
    \/ \E w \in DOMAIN cre : CreateOrderReserve(w)
    \/ \E w \in DOMAIN cre : CreateOrderReturn(w)
    \/ \E g \in goroutines, err \in PublishErrs : PublishOrderEvent(g, err)
    \/ PublishOtherStatus
    \/ \E k \in Instances : StartConsumer(k)
    \/ \E k \in Instances : Deliver(k)
    \/ \E k \in Instances : Receive(k)
    \/ \E k \in Instances, dbErr \in DbErrs : ProcessMessage(k, dbErr)
    \/ \E k \in Instances : Settle(k)
    \/ \E k \in Instances : Shutdown(k)

InitOtherStatus ==
    /\ InitStockFull
    /\ InitOrders(LifecycleOrders, {})

SpecOtherStatus == InitOtherStatus /\ [][NextOtherStatus]_vars


(***************************************************************************)
(* SpecList: OrderService.ListUserOrders on every page and page size the   *)
(* handler can pass.  Go's int is a two's-complement word of 64 bits whose *)
(* arithmetic wraps around; the model keeps that arithmetic on a word of   *)
(* IntBits bits, wide enough for the page sizes 20 and 50 of the code.     *)
(* strconv.Atoi gives the handler any int: the largest one for a number    *)
(* that is out of range, as its error is dropped.                          *)
(***************************************************************************)
MaxInt == 2 ^ (IntBits - 1) - 1
MinInt == 0 - 2 ^ (IntBits - 1)
Ints == MinInt..MaxInt

\* the value of an int expression: the result modulo 2^IntBits, as signed
WrapInt(n) == ((n - MinInt) % (2 ^ IntBits)) + MinInt

DefaultPageSize == 20  \* pageSize = 20
MaxPageSize == 50      \* pageSize > 50

\* ListUserOrders: the limit and the offset it passes to ListByUserID
ListUserOrdersQuery(page, pageSize) ==
    LET p == IF page < 1 THEN 1 ELSE page
        s == IF pageSize < 1 \/ pageSize > MaxPageSize
             THEN DefaultPageSize ELSE pageSize IN
    [limit |-> s, offset |-> WrapInt(WrapInt(p - 1) * s)]

\* the requests of a run: each is identified by its page and page size
ListRequests == [page : Ints, pageSize : Ints]

ListUserOrders(c) ==
    /\ can[c].pc = "idle"
    /\ can' = [can EXCEPT ![c].pc = "listed",
                          ![c].seen = ListUserOrdersQuery(c.page, c.pageSize)]
    /\ UNCHANGED <<orders, orderCache, cre, goroutines>>
    /\ UNCHANGED <<ledgerVars, brokerVars>>

InitList ==
    /\ InitStockFull
    /\ \E r \in ListRequests : InitOrders({}, {r})

NextList == \E c \in DOMAIN can : ListUserOrders(c)

SpecList == InitList /\ [][NextList]_vars

(***************************************************************************)
(* Accounting over the UpdateStock requests that returned success.         *)
(***************************************************************************)
RECURSIVE SumOver(_, _)
SumOver(f, S) ==
    IF S = {} THEN 0
    ELSE LET x == CHOOSE y \in S : TRUE IN f[x] + SumOver(f, S \ {x})

Succeeded(p) == {a \in Adjusters : adj[a].result = "ok" /\ adj[a].productID = p}

\* total quantity taken by successful reservations (negative quantity)
Taken(p) ==
    SumOver([a \in Adjusters |-> IF adj[a].quantity < 0 THEN 0 - adj[a].quantity ELSE 0],
            Succeeded(p))

\* total quantity given back by successful releases (positive quantity)
Returned(p) ==
    SumOver([a \in Adjusters |-> IF adj[a].quantity > 0 THEN adj[a].quantity ELSE 0],
            Succeeded(p))

\* sum of the deltas of the requests that returned success
DeltaSum(p) == SumOver([a \in Adjusters |-> adj[a].quantity], Succeeded(p))

(***************************************************************************)
(* C1 (as stated): under every interleaving of UpdateStock requests the    *)
(* quantity of a product is never negative and the total quantity taken by *)
(* successful reservations never exceeds the initial quantity.             *)
(***************************************************************************)
C1_TakenWithinInitial ==
    \A p \in ProductRows :
        /\ stock[p] >= 0
        /\ Taken(p) <= initialStock[p]

(***************************************************************************)
(* C1 (amended): under every interleaving of UpdateStock requests the      *)
(* quantity of a product is never negative and the total quantity taken by *)
(* successful reservations never exceeds the initial quantity plus the     *)
(* total quantity given back by successful releases.                       *)
(***************************************************************************)
C1_StockNonNegative ==
    \A p \in ProductRows :
        /\ stock[p] >= 0
        /\ Taken(p) <= initialStock[p] + Returned(p)

\* a reservation emptied the product and a competing one was rejected
C1_Witness ==
    \E a, b \in Adjusters :
        /\ a # b
        /\ adj[a].productID = adj[b].productID
        /\ adj[a].productID \in ProductRows
        /\ adj[a].result = "ok" /\ adj[a].quantity < 0
        /\ adj[b].result = "InsufficientStock"
        /\ stock[adj[a].productID] = 0
        /\ initialStock[adj[a].productID] > 0

(***************************************************************************)
(* C3: the read-check-write of UpdateStock is serialized per product: at   *)
(* most one transaction is between its read and its write on a product,    *)
(* the value it read is still the stored one when it writes, and the       *)
(* stored quantity always equals the initial quantity plus the deltas of   *)
(* exactly the requests that returned success (no lost update).            *)
(***************************************************************************)
C3_SerializedNoLostUpdate ==
    /\ \A p \in ProductRows :
          Cardinality({a \in Adjusters : adj[a].pc = "locked" /\ adj[a].productID = p}) <= 1
    /\ \A a \in Adjusters :
          adj[a].pc = "locked" => adj[a].currentStock = stock[adj[a].productID]
    /\ \A p \in ProductRows : stock[p] = initialStock[p] + DeltaSum(p)

\* two requests on one product both committed, the second on top of the first
C3_Witness ==
    \E a, b \in Adjusters :
        /\ a # b
        /\ adj[a].productID = adj[b].productID
        /\ adj[a].result = "ok" /\ adj[b].result = "ok"
        /\ adj[a].currentStock # adj[b].currentStock
        /\ adj[a].quantity < 0 /\ adj[b].quantity < 0

SingleItem(w, p, q) ==
    /\ Len(cre[w].items) = 1
    /\ cre[w].items[1].productID = p
    /\ cre[w].items[1].quantity = q

(***************************************************************************)
(* C2: two concurrent CreateOrder calls, each asking q of one product with *)
(* stock S, q <= S < 2q: exactly one succeeds, the other fails with        *)
(* InsufficientStock, and the resulting stock is S - q.                    *)
(***************************************************************************)
C2_ExactlyOneOrderSucceeds ==
    \A w1, w2 \in DOMAIN cre : \A p \in ProductRows : \A q \in 1..MaxQuantity :
        ( /\ w1 # w2
          /\ cre[w1].pc = "done" /\ cre[w2].pc = "done"
          /\ SingleItem(w1, p, q) /\ SingleItem(w2, p, q)
          /\ q <= initialStock[p] /\ initialStock[p] < 2 * q )
        => /\ {cre[w1].result, cre[w2].result} = {"ok", "InsufficientStock"}
           /\ stock[p] = initialStock[p] - q

\* the four edges of the order state machine
LegalEdge(from, to) ==
    \/ from = "pending" /\ to \in {"confirmed", "cancelled"}
    \/ from = "confirmed" /\ to \in {"cancelled", "completed"}

(***************************************************************************)
(* C5: status monotonicity: no step moves a stored order along an edge     *)
(* outside pending->confirmed, pending->cancelled, confirmed->cancelled,   *)
(* confirmed->completed.                                                   *)
(***************************************************************************)
C5_StatusMonotonic ==
    [][\A o \in DOMAIN orders :
          (orders[o].status # None /\ orders'[o].status # orders[o].status)
             => LegalEdge(orders[o].status, orders'[o].status)]_vars

(***************************************************************************)
(* C6: a status-transition request on an existing order whose (current,    *)
(* requested) pair is not a legal edge leaves the stored status unchanged  *)
(* and fails with InvalidTransition.                                       *)
(***************************************************************************)
C6_IllegalTransitionRejected ==
    [][/\ \A w \in DOMAIN cre :
             ( /\ cre[w].pc = "created" /\ cre'[w].pc = "invalidate"
               /\ orders[w].status # None
               /\ ~LegalEdge(orders[w].status,
                             IF cre'[w].err = "nil" THEN "confirmed" ELSE "cancelled") )
             => orders'[w].status = orders[w].status
       /\ \A c \in DOMAIN can :
             ( /\ can[c].pc = "update" /\ can'[c].pc = "invalidate"
               /\ orders[can[c].orderID].status # None
               /\ ~LegalEdge(orders[can[c].orderID].status, "cancelled") )
             => /\ orders'[can[c].orderID].status = orders[can[c].orderID].status
                /\ can'[c].err = "InvalidTransition"]_vars

\* the first item the ledger rejects when an order's items are taken from
\* it in sequence, 0 when it can supply them all
RECURSIVE FirstShort(_, _, _)
FirstShort(ledger, items, i) ==
    IF i > Len(items) THEN 0
    ELSE LET p == items[i].productID
             q == items[i].quantity IN
         IF p \notin DOMAIN ledger THEN i
         ELSE IF Insufficient(ledger[p], 0 - q) THEN i
         ELSE FirstShort([ledger EXCEPT ![p] = @ - q], items, i + 1)

(***************************************************************************)
(* C7: partial-failure compensation: when the reservation of some item of  *)
(* an order must fail (the ledger cannot supply the order's items in       *)
(* sequence even from its initial quantities), CreateOrder returns an      *)
(* error, the order ends cancelled, and once no other order holds or is    *)
(* taking stock the ledger is back at its level before the order.          *)
(***************************************************************************)
C7_PartialFailureCompensated ==
    \A w \in DOMAIN cre :
        ( /\ cre[w].pc = "done"
          /\ orders[w].status # None
          /\ FirstShort(initialStock, orders[w].items, 1) # 0 )
        => /\ orders[w].status = "cancelled"
           /\ cre[w].result # "ok"
           /\ (\A v \in DOMAIN cre \ {w} :
                  cre[v].pc \in {"idle", "done"} /\ orders[v].status \in {None, "cancelled"})
              => stock = initialStock

\* the orders stored as confirmed
ConfirmedOrders == {o \in DOMAIN orders : orders[o].status = "confirmed"}

(***************************************************************************)
(* C8: an order is confirmed only if the ledger applied an adjustment of   *)
(* -quantity for each of its items: every item's product has a stock row   *)
(* and the quantity taken out of each row covers the confirmed orders.     *)
(***************************************************************************)
C8_ConfirmedOnlyIfReserved ==
    /\ \A o \in ConfirmedOrders : \A i \in 1..Len(orders[o].items) :
          orders[o].items[i].productID \in ProductRows
    /\ \A p \in ProductRows :
          initialStock[p] - stock[p] >=
             SumOver([o \in DOMAIN orders |-> QuantityOf(orders[o].items, p, 1)],
                     ConfirmedOrders)

\* no request is in progress
Settled ==
    /\ \A w \in DOMAIN cre : cre[w].pc \in {"idle", "done"}
    /\ \A c \in DOMAIN can : can[c].pc \in {"idle", "done"}

CreatedThenCancelled(o) ==
    /\ orders[o].status = "cancelled"
    /\ cre[o].result = "ok"
    /\ \E c \in DOMAIN can :
          can[c].orderID = o /\ can[c].result = "ok" /\ can[c].seen = "confirmed"

AllCancelled ==
    /\ Settled
    /\ \E o \in DOMAIN orders : orders[o].status # None
    /\ \A o \in DOMAIN orders : orders[o].status # None => CreatedThenCancelled(o)

(***************************************************************************)
(* C9: cancellation symmetry: once every order that was created has been   *)
(* confirmed and then cancelled by a successful CancelOrder, and no        *)
(* request is in progress, every product's stock equals its level before   *)
(* the orders (net-zero stock delta).                                      *)
(***************************************************************************)
C9_CancellationSymmetry == AllCancelled => stock = initialStock

\* an order of two items of stocked products was confirmed, then cancelled
C9_Witness ==
    /\ AllCancelled
    /\ \E o \in DOMAIN orders :
          /\ Len(orders[o].items) = 2
          /\ \A i \in 1..2 : orders[o].items[i].productID \in ProductRows

(***************************************************************************)
(* C10: under any interleaving of CancelOrder calls on one order at most   *)
(* one succeeds, and no product's stock ever exceeds its level before the  *)
(* reservation.                                                            *)
(***************************************************************************)
C10_AtMostOneCancelSucceeds ==
    /\ \A c1, c2 \in DOMAIN can :
          (c1 # c2 /\ can[c1].orderID = can[c2].orderID /\ can[c1].result = "ok")
             => can[c2].result # "ok"
    /\ \A p \in ProductRows : stock[p] <= initialStock[p]

\* the orders that may hold stock: stored and not cancelled
LiveOrders == {o \in DOMAIN orders : orders[o].status \in {"pending", "confirmed"}}

\* the quantity of product p missing from the ledger beyond what the live
\* orders ask for
ReservedBeyondLive(p) ==
    (initialStock[p] - stock[p])
       - SumOver([o \in DOMAIN orders |-> QuantityOf(orders[o].items, p, 1)], LiveOrders)

StoredOrders == {o \in DOMAIN orders : orders[o].status # None}

(***************************************************************************)
(* C12: total price correctness: every order persisted by CreateOrder has  *)
(* total_price equal to the sum over its items of price * quantity, each   *)
(* item's price being the unit price the catalog lookup returned for its   *)
(* product when the order was created.                                     *)
(***************************************************************************)
C12_TotalPriceIsSumOfItems ==
    \A o \in StoredOrders :
        LET items == orders[o].items
            idx == 1..Len(items) IN
        /\ \A i \in idx :
              items[i].price =
                 getProductDetails({items[i].productID})[items[i].productID].price
        /\ orders[o].totalPrice =
              SumOver([i \in idx |-> items[i].price * items[i].quantity], idx)

\* an order of two items with different quantities is stored with its total
C12_Witness ==
    \E o \in StoredOrders :
        /\ Len(orders[o].items) = 2
        /\ orders[o].items[1].quantity = 1
        /\ orders[o].items[2].quantity = 2
        /\ orders[o].totalPrice = 3 * MockPriceCents

(***************************************************************************)
(* C13: a CreateOrder request with an empty user id or an empty items list *)
(* fails with InvalidInput and has no effect: no order is persisted for    *)
(* it, no stock is adjusted and no publish is started for it.              *)
(***************************************************************************)
C13_EmptyInputRejected ==
    \A w \in DOMAIN cre :
        (w \in ApiRequests /\ (w.userID = "" \/ w.items = <<>>))
        => /\ orders[w].status = None
           /\ cre[w].pc = "done" => cre[w].result \in {"InvalidRequest", "UserInvalid"}
           /\ \A g \in goroutines : g.worker # w
           /\ cre[w].pc # "idle" => stock = initialStock

\* the request has an item whose product the catalog lookup did not return
SomeItemMissing(items) ==
    LET products == getProductDetails({items[i].productID : i \in 1..Len(items)}) IN
    \E i \in 1..Len(items) : items[i].productID \notin DOMAIN products

\* the request has an item asking more than the stock the lookup returned
SomeItemShort(items) ==
    LET products == getProductDetails({items[i].productID : i \in 1..Len(items)}) IN
    \E i \in 1..Len(items) :
        /\ items[i].productID \in DOMAIN products
        /\ items[i].quantity > products[items[i].productID].stock

(***************************************************************************)
(* C14: a CreateOrder whose items include a product absent from the        *)
(* fetched catalog set fails with ProductNotFound, and one whose items     *)
(* include a quantity above the currently known stock fails with           *)
(* InsufficientStock; the failure precedes persistence: no order exists    *)
(* for the request, no stock is adjusted and no publish is started.        *)
(***************************************************************************)
C14_PreCheckFailsBeforePersist ==
    \A w \in DOMAIN cre :
        ( /\ w \in ApiRequests
          /\ cre[w].pc # "idle"
          /\ SomeItemMissing(w.items) \/ SomeItemShort(w.items) )
        => /\ cre[w].pc = "done"
           /\ cre[w].result \in
                 (IF SomeItemMissing(w.items) THEN {"ProductNotFound"} ELSE {})
                    \cup (IF SomeItemShort(w.items) THEN {"InsufficientStock"} ELSE {})
           /\ orders[w].status = None
           /\ \A g \in goroutines : g.worker # w
           /\ stock = initialStock

\* a request whose second item asks more than the known stock was refused
\* while another request was confirmed
C14_Witness ==
    \E w, v \in DOMAIN cre :
        /\ w \in ApiRequests
        /\ Len(w.items) = 2
        /\ w.items[1].quantity = 1
        /\ w.items[2].quantity > MockStock
        /\ cre[w].result = "InsufficientStock"
        /\ orders[v].status = "confirmed"

(***************************************************************************)
(* C15: Order Store Create is atomic: in every reachable state, also after *)
(* a failure part-way through inserting the items, either the order row    *)
(* and all of the order's item rows are stored or none of them is; a       *)
(* newly created order has status pending.                                 *)
(***************************************************************************)
C15_CreateAtomic ==
    \A w \in DOMAIN cre :
        \/ orders[w] = NoOrder
        \/ /\ orders[w].status = "pending"
           /\ orders[w].userID = cre[w].userID
           /\ orders[w].items = cre[w].items
           /\ cre[w].result = "ok"

\* one Create failed on its second item after inserting the order row and
\* the first item, another one committed an order of two items
C15_Witness ==
    \E w, v \in DOMAIN cre :
        /\ cre[w].result = "failed to insert order item"
        /\ Len(cre[w].items) = 2
        /\ InsertItemErr(cre[w].items[1]) = "nil"
        /\ orders[w] = NoOrder
        /\ cre[v].result = "ok"
        /\ Len(orders[v].items) = 2

(***************************************************************************)
(* C16: whenever CreateOrder has returned an order without error (no       *)
(* CancelOrder runs on it), the order's stored status is confirmed: a      *)
(* successful return is never paired with an order still stored pending.   *)
(***************************************************************************)
C16_SuccessMeansConfirmed ==
    \A w \in DOMAIN cre :
        cre[w].result = "ok" => orders[w].status = "confirmed"

\* the publish goroutines CreateOrder request w started
PublishesOf(w) == {g \in goroutines : g.by = "CreateOrder" /\ g.worker = w}

(***************************************************************************)
(* C17: for each CreateOrder that succeeded exactly one publish of an      *)
(* OrderEvent with status confirmed for its order is attempted (started,   *)
(* and run at most once); for each CreateOrder that failed (validation,    *)
(* pre-check, persistence or reservation failure) no event is published.   *)
(***************************************************************************)
C17_OnePublishPerSuccess ==
    \A w \in DOMAIN cre :
        /\ cre[w].result = "ok" =>
              /\ Cardinality(PublishesOf(w)) = 1
              /\ \A g \in PublishesOf(w) :
                    g.orderID = w /\ g.status = "confirmed" /\ g.attempts <= 1
        /\ (cre[w].pc = "done" /\ cre[w].result # "ok") => PublishesOf(w) = {}
        /\ cre[w].pc # "done" => PublishesOf(w) = {}

\* one CreateOrder succeeded and its event was published, the other failed
\* in repo.Create and published nothing
C17_Witness ==
    \E w, v \in DOMAIN cre :
        /\ cre[w].result = "ok"
        /\ \E g \in PublishesOf(w) : g.outcome = "published" /\ g.attempts = 1
        /\ cre[v].result = "failed to create order"
        /\ PublishesOf(v) = {}

(***************************************************************************)
(* C18: event emission is fire-and-forget: the caller of CreateOrder has   *)
(* its result before the publish runs; a PublishOrderEvent that fails ends *)
(* the goroutine after that one attempt (no retry), and a publish leaves   *)
(* the stored orders, every stock quantity and the results returned to the *)
(* callers unchanged.                                                      *)
(***************************************************************************)
C18_PublishFireAndForget ==
    [][\A g \in goroutines :
          /\ (g.by = "CreateOrder" /\ g.outcome = "running")
                => cre[g.worker].result = "ok"
          /\ (g.by = "CreateOrder" /\ g.outcome = "running" /\ g \notin goroutines')
                => /\ orders' = orders
                   /\ stock' = stock
                   /\ cre' = cre
                   /\ \E h \in goroutines' :
                         /\ h.outcome \in {"published", "failed"}
                         /\ h = [g EXCEPT !.outcome = h.outcome, !.attempts = 1]
          /\ g.outcome = "failed" => g \in goroutines']_vars

\* the publish of a confirmed order failed once and was left at that
C18_Witness ==
    \E g \in goroutines :
        /\ g.by = "CreateOrder"
        /\ g.outcome = "failed"
        /\ g.attempts = 1
        /\ cre[g.worker].result = "ok"
        /\ orders[g.orderID].status = "confirmed"
        /\ stock = initialStock

\* CancelOrder request c takes the step in which its GetByID and checks end
CancelDecides(c) ==
    /\ can[c].pc \in {"idle", "query", "fill"}
    /\ can'[c].pc \in {"update", "done"}

(***************************************************************************)
(* C19: CancelOrder(orderId, userId) fails with NotFound when no such      *)
(* order exists and with Unauthorized when the order's user is not userId; *)
(* in both cases no step of the call changes the status of an order, a     *)
(* stock quantity or the events started.                                   *)
(***************************************************************************)
C19_NotFoundUnauthorized ==
    [][\A c \in DOMAIN can :
          /\ (CancelDecides(c) /\ orders[can'[c].orderID].status = None)
                => can'[c].pc = "done" /\ can'[c].result = "NotFound"
          /\ ( /\ CancelDecides(c)
               /\ orders[can'[c].orderID].status # None
               /\ orders[can'[c].orderID].userID # can'[c].userID )
                => can'[c].pc = "done" /\ can'[c].result = "Unauthorized"
          /\ (can[c].pc \in {"idle", "query", "fill"} /\ can'[c] # can[c])
                => orders' = orders /\ stock' = stock /\ goroutines' = goroutines
          /\ can'[c].result \in {"NotFound", "Unauthorized"}
                => can'[c].err = None]_vars

\* one CancelOrder came before the order existed, another came from a user
\* who does not own it; the order is confirmed
C19_Witness ==
    \E c1, c2 \in DOMAIN can :
        /\ can[c1].result = "NotFound"
        /\ can[c2].result = "Unauthorized"
        /\ can[c1].orderID = can[c2].orderID
        /\ orders[can[c2].orderID].status = "confirmed"
        /\ orders[can[c2].orderID].userID # can[c2].userID
        /\ \E g \in goroutines :
              /\ goroutines = {g}
              /\ g.by = "CreateOrder" /\ g.orderID = can[c2].orderID
              /\ g.status = "confirmed" /\ g.outcome = "running"

\* CancelOrder call c begins, by its owner, on an order stored with status s
BeginsOn(c, s) ==
    /\ can[c].pc = "idle"
    /\ can'[c].pc # "idle"
    /\ orders[can'[c].orderID].status = s
    /\ orders[can'[c].orderID].userID = can'[c].userID

(***************************************************************************)
(* C20: CancelOrder on an order whose status is cancelled fails with       *)
(* AlreadyCancelled, and on an order whose status is completed fails with  *)
(* CannotCancelCompleted: the call does not go on to release stock and     *)
(* update the status, and a call that ended with either error left the     *)
(* stock and the status alone and started no event.                        *)
(***************************************************************************)
C20_TerminalOrderNotCancelled ==
    [][\A c \in DOMAIN can :
          /\ BeginsOn(c, "cancelled") =>
                /\ can'[c].pc # "update"
                /\ can'[c].pc = "done" => can'[c].result = "AlreadyCancelled"
          /\ BeginsOn(c, "completed") =>
                /\ can'[c].pc # "update"
                /\ can'[c].pc = "done" => can'[c].result = "CannotCancelCompleted"
          /\ ( /\ can[c].result = None
               /\ can'[c].result \in {"AlreadyCancelled", "CannotCancelCompleted"} )
                => /\ orders' = orders
                   /\ stock' = stock
                   /\ goroutines' = goroutines
                   /\ \A g \in goroutines : ~(g.by = "CancelOrder" /\ g.worker = c)]_vars

\* the publish goroutines CancelOrder call c started
CancelPublishesOf(c) == {g \in goroutines : g.by = "CancelOrder" /\ g.worker = c}

(***************************************************************************)
(* C21: a successful CancelOrder works in order: it issues a positive      *)
(* ledger adjustment for every item of the order, then stores status       *)
(* cancelled, then emits one OrderEvent with status cancelled; the event   *)
(* is emitted only after the transition succeeded, and when the transition *)
(* fails CancelOrder returns an error and emits no event.                  *)
(***************************************************************************)
C21_CancelStepsInOrder ==
    [][\A c \in DOMAIN can :
          /\ (can[c].pc = "update" /\ can'[c].pc = "invalidate")
                => /\ \A p \in ProductRows :
                         stock'[p] = stock[p]
                                        + QuantityOf(orders[can[c].orderID].items, p, 1)
                   /\ can'[c].err = "nil" => orders'[can[c].orderID].status = "cancelled"
                   /\ CancelPublishesOf(c) = {}
          /\ CancelPublishesOf(c)' # CancelPublishesOf(c)
                => /\ can[c].pc = "invalidate" /\ can[c].err = "nil"
                   /\ can'[c].result = "ok"
                   /\ Cardinality(CancelPublishesOf(c)') = 1
          /\ (can[c].pc = "invalidate" /\ can[c].err # "nil" /\ can'[c].pc = "done")
                => can'[c].result # "ok" /\ goroutines' = goroutines]_vars

\* the queues with a binding to the exchange
BoundQueues == {b.queue : b \in bindings}

\* the message the publish goroutine g puts on the exchange
MessageOf(g) ==
    [id |-> <<g.by, g.worker>>,
     body |-> Marshal([orderID |-> g.orderID, userID |-> g.userID,
                       totalPrice |-> g.totalPrice, status |-> g.status]),
     redelivered |-> FALSE]

(***************************************************************************)
(* C22: fan-out delivery: every event successfully published to the        *)
(* exchange "orders" is enqueued on every queue bound to it at that        *)
(* moment, whatever the key of the binding; no bound queue misses an event *)
(* another bound queue receives, and an unbound queue receives nothing.    *)
(***************************************************************************)
C22_FanoutToEveryBoundQueue ==
    [][\A g \in goroutines :
          ( /\ g.outcome = "running"
            /\ [g EXCEPT !.outcome = "published", !.attempts = @ + 1] \in goroutines' )
          => \A q \in QueueNames :
                queues'[q] = IF q \in BoundQueues
                             THEN Append(queues[q], MessageOf(g))
                             ELSE queues[q]]_vars

\* both queues, bound with different keys, hold the same two events
C22_Witness ==
    /\ [queue |-> NotificationsQueue, key |-> ""] \in bindings
    /\ [queue |-> AuditQueue, key |-> "audit"] \in bindings
    /\ [queue |-> AuditQueue, key |-> ""] \notin bindings
    /\ Len(queues[NotificationsQueue]) = 2
    /\ queues[AuditQueue] = queues[NotificationsQueue]

\* the ids of the messages that are ready on a queue or delivered and not
\* settled
LiveIds ==
    UNION {IdsOf(queues[q]) : q \in QueueNames}
       \cup UNION {IdsOf(consumers[k].unacked) : k \in Instances}

\* instance k settles, on its open channel, the delivery it processed
SettlesOnChannel(k) ==
    /\ consumers[k].pc = "settle"
    /\ consumers'[k].pc = "wait"
    /\ consumers[k].up
    /\ consumers[k].msg.id \in IdsOf(consumers[k].unacked)

RequeuedIds ==
    {queues[NotificationsQueue][i].id :
        i \in {j \in 1..Len(queues[NotificationsQueue]) :
                  queues[NotificationsQueue][j].redelivered}}

\* the message with this id is delivered to an instance and not settled
DeliveredTo(id) == \E k \in Instances : id \in IdsOf(consumers[k].unacked)

\* the handler of instance k returns an error for a well-formed event
HandlerFails(k) ==
    /\ consumers[k].pc = "received"
    /\ consumers'[k].pc = "settle"
    /\ Unmarshal(consumers[k].msg.body).err = "nil"
    /\ notifications' = notifications
    /\ Unmarshal(consumers[k].msg.body).event.status \in {"confirmed", "cancelled"}

(***************************************************************************)
(* C24: when the notification handler returns an error for a well-formed   *)
(* event, the consumer rejects the delivery with requeue: the message is   *)
(* put back on the queue "notifications", flagged redelivered, instead of  *)
(* being dropped, and every message put back on the queue is eventually    *)
(* delivered again.                                                        *)
(***************************************************************************)
C24_HandlerErrorRequeues ==
    /\ [][\A k \in Instances :
             /\ HandlerFails(k) => consumers'[k].verdict = "requeue"
             /\ (SettlesOnChannel(k) /\ consumers[k].verdict = "requeue")
                   => /\ queues'[NotificationsQueue] =
                            <<[consumers[k].msg EXCEPT !.redelivered = TRUE]>>
                               \o queues[NotificationsQueue]
                      /\ consumers[k].msg.id \notin history'.rejected]_vars
    /\ \A id \in MessageIds : (id \in RequeuedIds) ~> DeliveredTo(id)

\* the confirmed event of the order is delivered for the second time after
\* the handler failed on it, with no restart of the service in between
C24_Witness ==
    \E k \in Instances :
        /\ consumers[k].shutdowns = 0
        /\ consumers[k].pc = "received"
        /\ consumers[k].msg.id = <<"CreateOrder", 1>>
        /\ consumers[k].msg.redelivered
        /\ notifications = <<>>

\* the handler of instance k returns without error for a well-formed event
HandlerSucceeds(k) ==
    /\ consumers[k].pc = "received"
    /\ consumers'[k].pc = "settle"
    /\ Unmarshal(consumers[k].msg.body).err = "nil"
    /\ \/ notifications' # notifications
       \/ Unmarshal(consumers[k].msg.body).event.status \notin {"confirmed", "cancelled"}

C26_OneInFlight ==
    \A k \in Instances :
        /\ Len(consumers[k].unacked) <= 1
        /\ (consumers[k].pc # "wait" /\ consumers[k].unacked # <<>>)
              => consumers[k].unacked[1].id = consumers[k].msg.id

\* one message is being processed while the next waits on the queue
C26_Witness ==
    \E k \in Instances :
        /\ consumers[k].pc = "settle"
        /\ Len(consumers[k].unacked) = 1
        /\ consumers[k].unacked[1].id = <<"CreateOrder", 1>>
        /\ <<"CancelOrder", 1>> \in IdsOf(queues[NotificationsQueue])

\* an instance holds a delivery it has not settled
HoldsUnsettled == \E k \in Instances : consumers[k].unacked # <<>>

\* a step of the order service: a request or a publishing goroutine moves
ProducerStep == <<cre, can, goroutines>>' # <<cre, can, goroutines>>

(***************************************************************************)
(* C27: the notification service never holds up the order service.  With   *)
(* a consumer that stops at any point or never acknowledges, every         *)
(* CreateOrder and CancelOrder that was entered returns, every publishing  *)
(* goroutine that was started finishes its publish, and no step of the     *)
(* order service changes what the consumer holds: the events published     *)
(* meanwhile wait on the queue.                                            *)
(***************************************************************************)
C27_ConsumerNeverBlocksProducer ==
    /\ \A w \in LifecycleOrders : (cre[w].pc # "idle") ~> (cre[w].pc = "done")
    /\ \A c \in LifecycleOrders : (can[c].pc # "idle") ~> (can[c].pc = "done")
    /\ (\E g \in goroutines : g.outcome = "running")
          ~> (\A g \in goroutines : g.outcome # "running")
    /\ [][ProducerStep => consumers' = consumers]_vars

\* the consumer sits on the confirmed event without acknowledging it; the
\* order was cancelled all the same and its cancelled event waits on the
\* queue
C27_Witness ==
    /\ \E k \in Instances :
          /\ IdsOf(consumers[k].unacked) = {<<"CreateOrder", 1>>}
          /\ consumers[k].pc = "wait"
    /\ \A w \in LifecycleOrders : cre[w].pc = "done"
    /\ \A c \in LifecycleOrders : can[c].pc = "done" /\ can[c].result = "ok"
    /\ \A g \in goroutines : g.outcome = "published"
    /\ IdsOf(queues[NotificationsQueue]) = {<<"CancelOrder", 1>>}

(***************************************************************************)
(* C28: handling the same OrderEvent more than once leaves the             *)
(* notification store as handling it once does: the store never holds two  *)
(* notifications for the same order id and the same kind of event.         *)
(***************************************************************************)
C28_HandlersIdempotent ==
    \A i, j \in 1..Len(notifications) :
        ( /\ notifications[i].orderID = notifications[j].orderID
          /\ notifications[i].subject = notifications[j].subject ) => i = j

(***************************************************************************)
(* C29: an UpdateStock request holds the lock of its product's row only    *)
(* between its SELECT ... FOR UPDATE and the end of its transaction: not   *)
(* before, not while it invalidates the cache, and not after it returned,  *)
(* whatever it returned.  Under fair scheduling every request that has     *)
(* started returns: none waits for the row for ever.                       *)
(***************************************************************************)
C29_RowLockReleased ==
    /\ [](\A a \in Adjusters, p \in ProductRows :
             a \in rowLock[p] => (adj[a].pc = "locked" /\ adj[a].productID = p))
    /\ \A a \in Adjusters : (adj[a].pc # "idle") ~> (adj[a].pc = "done")

\* two requests on the same row: the first left through the write error,
\* the second, which waited for the row, through InsufficientStock
C29_Witness ==
    /\ adj[1].pc = "done" /\ adj[1].result = "failed to update stock"
    /\ adj[2].pc = "done" /\ adj[2].result = "InsufficientStock"
    /\ adj[1].productID = "p1" /\ adj[2].productID = "p1"
    /\ rowLock["p1"] = {}

(***************************************************************************)
(* C30: every published OrderEvent is a snapshot of its order: its user id *)
(* and its total price are those of the stored order, a confirmed event    *)
(* belongs to an order that became confirmed (and may have been cancelled  *)
(* since), a cancelled event to an order that is cancelled.                *)
(***************************************************************************)
C30_EventIsSnapshot ==
    \A g \in goroutines :
        g.outcome = "published" =>
            /\ g.orderID \in DOMAIN orders
            /\ g.userID = orders[g.orderID].userID
            /\ g.totalPrice = orders[g.orderID].totalPrice
            /\ g.status = "confirmed"
                  => orders[g.orderID].status \in {"confirmed", "cancelled"}
            /\ g.status = "cancelled" => orders[g.orderID].status = "cancelled"

\* the messages that were acknowledged or rejected without requeue
SettledIds == history.acked \cup history.rejected

(***************************************************************************)
(* C31: no message is redelivered without bound.  Under fair scheduling of *)
(* the broker and the consumer, every message that is on the queue         *)
(* "notifications" or delivered from it is eventually acknowledged or      *)
(* rejected for good, also when the handler fails on every attempt.        *)
(***************************************************************************)
C31_NoEndlessRedelivery ==
    \A id \in MessageIds : (id \in LiveIds) ~> (id \in SettledIds)

(***************************************************************************)
(* C32: once an order is stored, no step changes its owner, its items      *)
(* (product, quantity, unit price) or its total price, and the order stays *)
(* stored under its id: status updates, cancellation and changes of the    *)
(* products' stock change at most the order's status.                      *)
(***************************************************************************)
C32_OrderFrozenAfterCreate ==
    [][\A o \in DOMAIN orders :
          orders[o].status # None
             => /\ o \in DOMAIN orders'
                /\ orders'[o].status # None
                /\ orders'[o].userID = orders[o].userID
                /\ orders'[o].items = orders[o].items
                /\ orders'[o].totalPrice = orders[o].totalPrice]_vars

\* the order was confirmed and cancelled and the stock of its product was
\* changed meanwhile: it still has its one item at the price of its creation
C32_Witness ==
    /\ orders[1].status = "cancelled"
    /\ orders[1].userID = "u1"
    /\ orders[1].items = <<[productID |-> "p1", quantity |-> 1,
                            price |-> MockPriceCents]>>
    /\ orders[1].totalPrice = MockPriceCents
    /\ stock["p1"] # initialStock["p1"]

\* an UpdateStatus on order o has done its UPDATE and not yet returned
UpdateStatusInFlight(o) ==
    \/ o \in DOMAIN cre /\ cre[o].pc = "invalidate"
    \/ \E c \in DOMAIN can : can[c].pc = "invalidate" /\ can[c].orderID = o

(***************************************************************************)
(* C33: the order cache is coherent with the orders table: whenever no     *)
(* UpdateStatus is between its UPDATE and its return, the cached copy of   *)
(* an order, if there is one, has the status the stored order has, so a    *)
(* GetByID that starts after an UpdateStatus completed sees the new status.*)
(***************************************************************************)
C33_CacheCoherent ==
    \A o \in DOMAIN orders :
        ~UpdateStatusInFlight(o) => orderCache[o] \in {None, orders[o].status}

\* message m, as first published, is the event of this status for order o
IsEventOf(m, o, status) ==
    /\ ~m.redelivered
    /\ Unmarshal(m.body).err = "nil"
    /\ Unmarshal(m.body).event.orderID = o
    /\ Unmarshal(m.body).event.status = status

(***************************************************************************)
(* C34: the events of one order reach the exchange in the order of its     *)
(* life: no queue holds, among the messages as the publishers sent them,   *)
(* the cancelled event of an order ahead of its confirmed event.           *)
(***************************************************************************)
C34_ConfirmedBeforeCancelled ==
    \A q \in QueueNames, o \in DOMAIN orders :
        \A i, j \in 1..Len(queues[q]) :
            (IsEventOf(queues[q][i], o, "cancelled")
                /\ IsEventOf(queues[q][j], o, "confirmed")) => j < i

\* CreateOrder request w returns its order in this step
CreateOrderReturnsOrder(w) ==
    /\ cre[w].pc # "done"
    /\ cre'[w].pc = "done"
    /\ cre'[w].result = "ok"

(***************************************************************************)
(* C35: the Order a successful CreateOrder returns is the stored order as  *)
(* it is at the return: the same status, owner, items and total price.     *)
(***************************************************************************)
C35_ReturnedOrderIsStoredOrder ==
    [][\A w \in DOMAIN cre :
          CreateOrderReturnsOrder(w)
             => /\ cre'[w].order.status = orders'[w].status
                /\ cre'[w].order.userID = orders'[w].userID
                /\ cre'[w].order.items = orders'[w].items
                /\ cre'[w].order.totalPrice = orders'[w].totalPrice]_vars

\* call c is a read of order o by user u, taken in this step
ReadsOrder(c, o, u) ==
    /\ can[c].pc = "idle"
    /\ can'[c].pc \in {"read", "status"}
    /\ can'[c].orderID = o
    /\ can'[c].userID = u

(***************************************************************************)
(* C36: order reads are owner-only.  A GetOrderByID or GetOrderStatus on a *)
(* stored order by a user who is not its owner returns the error           *)
(* "unauthorized access to order" and no order data (a nil order, an empty *)
(* status), whatever the order's status, items and total price are.        *)
(***************************************************************************)
C36_ReadsOwnerOnly ==
    [][\A c \in DOMAIN can, o \in DOMAIN orders, u \in CancelUsers :
          (ReadsOrder(c, o, u) /\ orders[o].status # None /\ orders[o].userID # u)
             => /\ can'[c].result = "unauthorized access to order"
                /\ can'[c].pc = "read" => can'[c].seen = NoOrder
                /\ can'[c].pc = "status" => can'[c].seen = ""]_vars

\* the other user was refused the order of two units, which its owner read
\* while it was confirmed and then cancelled
C36_Witness ==
    /\ orders[1].status = "cancelled"
    /\ orders[1].totalPrice = 2 * MockPriceCents
    /\ can[1].pc = "read" /\ can[1].userID = "u2"
    /\ can[1].result = "unauthorized access to order"
    /\ can[2].pc = "read" /\ can[2].userID = "u1"
    /\ can[2].result = "nil" /\ can[2].seen.status = "confirmed"
    /\ can[3].pc = "done" /\ can[3].result = "ok"

\* the delivery instance k holds is a well-formed event with a status that
\* is neither confirmed nor cancelled
HoldsOtherStatus(k) ==
    /\ Unmarshal(consumers[k].msg.body).err = "nil"
    /\ Unmarshal(consumers[k].msg.body).event.status \notin {"confirmed", "cancelled"}

C38_PagingNormalized ==
    \A c \in DOMAIN can :
        can[c].pc = "listed" =>
            LET p == IF c.page < 1 THEN 1 ELSE c.page
                s == IF c.pageSize < 1 \/ c.pageSize > 50 THEN 20 ELSE c.pageSize IN
            /\ can[c].seen.limit = s
            /\ can[c].seen.limit \in 1..50
            /\ can[c].seen.offset = (p - 1) * s
            /\ can[c].seen.offset >= 0

====
